---- MODULE Spec2Model ----
(***************************************************************************)
(* dev-log: GitLab merge requests -> Notion database synchronisation.      *)
(*                                                                         *)
(* The model covers the NotionApiWrapper (its PQueue limiter, withRetry,   *)
(* createOrUpdatePage / queryDatabase / getPage / updatePage) and the      *)
(* syncMrToNotion job that drives it.  The Notion store and the GitLab     *)
(* list call are the environment: each outbound call answers with a value  *)
(* or with one of the error shapes below.                                  *)
(***************************************************************************)
EXTENDS Integers, Sequences, FiniteSets, TLC

VARIABLES
    env,      \* process.env, as far as the two wrappers and the job read it
    singletons, \* the static instance of each wrapper class, and what it built
    config,   \* NotionApiWrapper.config, as resolved by parseEnvConfig
    units,    \* the public wrapper calls submitted so far (one record per call)
    queue,    \* PQueue: tasks added but not yet started, FIFO
    delivered,\* the wrapper call that settled last, as its caller receives it
    pages,    \* the Notion store: the pages created so far
    run,      \* the syncMrToNotion invocation in progress (or the last one)
    runs,     \* number of syncMrToNotion invocations started
    prev,     \* what the previous invocation fetched and how it ended
    host,     \* the GitLabApiWrapper list call in progress (or the last one)
    proc,     \* the node process started from the command line
    mapped    \* the last application of mapMrToNotionProperties

vars == <<env, singletons, config, units, queue, delivered, pages, run, runs,
          prev, host, proc, mapped>>

----------------------------------------------------------------------------
(* Bounds of the model *)

MaxUnits == 4          \* wrapper calls submitted concurrently (SpecQueue)
MaxRetryOverride == 3  \* largest maxRetries override given to getInstance
MaxRuns == 2           \* successive syncMrToNotion invocations (Spec)
MaxBatch == 2          \* merge requests returned by one fetch
CallCap == 2           \* the per-call counters of client calls stop counting here
MaxRemote == 4         \* merge requests the code host holds for one filter
MaxPerPage == 3        \* largest per_page given to listMergedMrsIterator
MaxLabels == 2         \* labels of one merge request

(* Program constants *)

DEFAULT_MAX_RETRIES == 5
DEFAULT_BASE_DELAY == 1000
RATE_LIMIT_STATUS == 429
QueueConcurrency == 3
TestBaseDelay == 100

ENV_NOTION_DB_ID == "test-db-id"
CustomDbId == "custom-db-id"
DEFAULT_UNIQUE_KEY_PROP == "Unique Key"

Iids == {1, 2}
Levels == {"top", "sub"}

----------------------------------------------------------------------------
(* Outcomes of an operation: a value or an error.  o and i number the      *)
(* invocation that produced it (o: invocation of the unit's own            *)
(* operation, i: invocation of its nested query, 0 when there is none).    *)

NoOutcome ==
    [kind |-> "none", page |-> 0, status |-> 0, code |-> "none",
     message |-> "none", o |-> 0, i |-> 0]

ErrorShapes ==
    { [status |-> RATE_LIMIT_STATUS, code |-> "none", message |-> "Rate limited"],
      [status |-> 0, code |-> "rate_limited", message |-> "Rate limited (code)"],
      [status |-> 500, code |-> "none", message |-> "Other error"] }

\* the store's rate-limit answers: HTTP status 429, or the code rate_limited
RateLimitSignal(e) == e.kind = "error" /\ (e.status = 429 \/ e.code = "rate_limited")

MkError(shape, o, i) ==
    [kind |-> "error", page |-> 0, status |-> shape.status, code |-> shape.code,
     message |-> shape.message, o |-> o, i |-> i]

MkValue(page, o, i) ==
    [kind |-> "value", page |-> page, status |-> 0, code |-> "none",
     message |-> "none", o |-> o, i |-> i]

----------------------------------------------------------------------------
(* parseEnvConfig: an absent or zero override falls back to the default *)

OrDefault(override, default) == IF override = 0 THEN default ELSE override

OrDefaultStr(override, default) == IF override = "" THEN default ELSE override

parseEnvConfig(ovDb, ovProp, envProp, ovRetries, ovDelay) ==
    [databaseId |-> OrDefaultStr(ovDb, ENV_NOTION_DB_ID),
     uniqueKeyProperty |->
         OrDefaultStr(ovProp, OrDefaultStr(envProp, DEFAULT_UNIQUE_KEY_PROP)),
     maxRetries |-> OrDefault(ovRetries, DEFAULT_MAX_RETRIES),
     baseDelay |-> OrDefault(ovDelay, DEFAULT_BASE_DELAY)]

----------------------------------------------------------------------------
(* The singletons: GitLabApiWrapper.instance and NotionApiWrapper.instance *)

WrapperClasses == {"GitLabApiWrapper", "NotionApiWrapper"}

\* the static field of a class and what its constructor has done so far;
\* instance 0 stands for undefined
NoSingleton ==
    [instance |-> 0,       \* the static instance: the n-th object constructed
     made |-> 0,           \* wrapper objects constructed
     clients |-> 0,        \* API clients constructed (new Gitlab / new Client)
     builtWith |-> 0,      \* the config given to the constructor, 0 for none
     lastGiven |-> 0,      \* the config given to the latest getInstance call
     returned |-> <<>>,    \* the last two results of getInstance since a reset
     dropped |-> {}]       \* the instances resetForTests has let go of

\* after every module was imported and the first store call was made: each
\* class holds its first instance, built from the environment
ImportedSingletons ==
    [c \in WrapperClasses |->
        [NoSingleton EXCEPT !.instance = 1, !.made = 1, !.clients = 1]]

MaxMade == 3           \* wrapper objects constructed per class

\* a getInstance that constructs on every call
NeedsInstanceAlways(instance) == TRUE

\* if (!Wrapper.instance)
NeedsInstance(instance) == instance = 0

\* the last two elements of a sequence with x appended
LastTwo(q, x) == IF Len(q) < 2 THEN Append(q, x) ELSE <<q[2], x>>

\* Wrapper.getInstance(config): given 0 stands for no config.  For the
\* NotionApiWrapper the given config is { maxRetries: given }
GetInstance(c, given) ==
    LET s == singletons[c] IN
    /\ NeedsInstance(s.instance) => s.made < MaxMade
    /\ IF NeedsInstance(s.instance)
       THEN /\ singletons' =
                   [singletons EXCEPT
                       ![c] = [s EXCEPT !.instance = s.made + 1,
                                        !.made = @ + 1,
                                        !.clients = @ + 1,
                                        !.builtWith = given,
                                        !.lastGiven = given,
                                        !.returned = LastTwo(@, s.made + 1)]]
            /\ config' = IF c = "NotionApiWrapper"
                         THEN parseEnvConfig("", "", env.NOTION_UNIQUE_KEY_PROP,
                                             given, 0)
                         ELSE config
       ELSE /\ singletons' =
                   [singletons EXCEPT ![c].returned = LastTwo(@, s.instance),
                                      ![c].lastGiven = given]
            /\ UNCHANGED config
    /\ UNCHANGED <<env, units, queue, delivered, pages, run, runs, prev, host,
                   proc, mapped>>

\* Wrapper.resetForTests()
ResetForTests(c) ==
    /\ singletons' =
           [singletons EXCEPT
               ![c].instance = 0,
               ![c].returned = <<>>,
               ![c].dropped = IF singletons[c].instance = 0 THEN @
                              ELSE @ \cup {singletons[c].instance}]
    /\ UNCHANGED <<env, config, units, queue, delivered, pages, run, runs, prev,
                   host, proc, mapped>>

----------------------------------------------------------------------------
(* withRetry *)

Pow2(n) == 2 ^ n

\* a retry condition that is off by one on the attempt count
ShouldRetryOffByOne(err, attempt, maxRetries) ==
    /\ (err.status = RATE_LIMIT_STATUS \/ err.code = "rate_limited")
    /\ attempt <= maxRetries

\* a retry condition that takes every error status from 429 up for a rate limit
ShouldRetryAnyStatus(err, attempt, maxRetries) ==
    /\ (err.status >= RATE_LIMIT_STATUS \/ err.code = "rate_limited")
    /\ attempt < maxRetries

\* the retry condition of the catch block
ShouldRetry(err, attempt, maxRetries) ==
    /\ (err.status = RATE_LIMIT_STATUS \/ err.code = "rate_limited")
    /\ attempt < maxRetries

\* the loop condition, evaluated after continue and attempt++
LoopContinues(attempt, maxRetries) == attempt <= maxRetries

\* a delay with the arguments of Math.pow exchanged
RetryDelaySwapped(baseDelay, attempt) == baseDelay * (attempt ^ 2)

\* delay = baseDelay * Math.pow(2, attempt)
RetryDelay(baseDelay, attempt) == baseDelay * Pow2(attempt)

\* lastError = err
CatchLastError(lastError, err) == err

\* One withRetry execution running as one PQueue task.
FreshExec ==
    [q |-> "none",          \* none | queued | running | settled
     pc |-> "idle",         \* idle | call | wait | sleep | returned | thrown
     attempt |-> 0,         \* the loop variable
     call |-> "none",       \* the client call in flight
     lastError |-> NoOutcome,
     result |-> NoOutcome,  \* what the execution returned or threw
     nInv |-> 0,            \* times the operation was invoked
     nFail |-> 0,           \* times the operation failed
     allRL |-> TRUE,        \* every failure so far was the rate-limit signal
     lastOutcome |-> NoOutcome,  \* outcome of the latest invocation
     delays |-> <<>>,       \* delays slept, in order
     warns |-> 0]           \* logger.warn calls

NoCalls == [query |-> 0, create |-> 0, update |-> 0, retrieve |-> 0]

\* a Notion property value
Property(type, content) == [type |-> type, content |-> content]

\* properties: {}
NoProperties == [x \in {} |-> Property("none", "none")]

\* One call of a public method.  awaited: the caller keeps the promise and
\* receives what it settles with.
NewUnit(method, key, parent, pageId, awaited) ==
    [method |-> method, uniqueKey |-> key, parent |-> parent, pageId |-> pageId,
     awaited |-> awaited, top |-> FreshExec, sub |-> FreshExec, calls |-> NoCalls,
     properties |-> NoProperties,
     queries |-> 0]         \* databases.query calls issued for this call,
                            \* counted up to one past maxRetries + 1

\* the same call, given params.properties
WithProperties(unit, properties) == [unit EXCEPT !.properties = properties]

NoUnit == NewUnit("none", <<>>, "", 0, FALSE)

\* what is left in units of a call whose promise has settled
SettledUnit == [NoUnit EXCEPT !.method = "settled", !.top.q = "settled"]

\* W is the wrapper state [units, queue, delivered]
PendingCount(W) ==
    Cardinality({ t \in (DOMAIN W.units) \X Levels : W.units[t[1]][t[2]].q = "running" })

\* the client call that starts the operation of a task
FirstCall(method) ==
    CASE method = "getPage" -> "retrieve"
      [] method = "updatePage" -> "update"
      [] OTHER -> "query"

UpTo(n, cap) == IF n < cap THEN n ELSE cap

IssueCall(W, u, lvl, c) ==
    [W EXCEPT !.units[u][lvl].pc = "call",
              !.units[u][lvl].call = c,
              !.units[u].calls[c] = UpTo(@ + 1, CallCap),
              !.units[u].queries =
                  IF c = "query" THEN UpTo(@ + 1, config.maxRetries + 2) ELSE @]

RECURSIVE InvokeOperation(_, _, _), RunTask(_, _, _), QueueAdd(_, _, _)
RECURSIVE Settle(_, _, _, _), OperationFailed(_, _, _, _)

\* a queue that starts every task at once
QueueAddUnbounded(W, u, lvl) == RunTask(W, u, lvl)

\* this.queue.add(task): the task starts at once when a slot is free
QueueAdd(W, u, lvl) ==
    IF PendingCount(W) < QueueConcurrency
    THEN RunTask(W, u, lvl)
    ELSE [W EXCEPT !.units[u][lvl].q = "queued",
                   !.queue = Append(@, <<u, lvl>>)]

\* the task body: withRetry(operation), up to the first await
RunTask(W, u, lvl) ==
    InvokeOperation([W EXCEPT !.units[u][lvl].q = "running",
                              !.units[u][lvl].attempt = 0], u, lvl)

\* return await operation(): the synchronous part of the operation
InvokeOperation(W, u, lvl) ==
    LET W1 == [W EXCEPT !.units[u][lvl].nInv = @ + 1] IN
    IF lvl = "top" /\ W.units[u].method = "createOrUpdatePage"
    THEN \* findPageByUniqueKey -> queryDatabase -> this.queue.add(...)
         QueueAdd([W1 EXCEPT !.units[u].top.pc = "wait",
                             !.units[u].sub = FreshExec], u, "sub")
    ELSE IssueCall(W1, u, lvl, IF lvl = "sub" THEN "query"
                                ELSE FirstCall(W.units[u].method))

\* PQueue starts the head of the queue when a slot frees
TryToStartAnother(W) ==
    IF W.queue # <<>> /\ PendingCount(W) < QueueConcurrency
    THEN RunTask([W EXCEPT !.queue = Tail(@)], W.queue[1][1], W.queue[1][2])
    ELSE W

\* createOrUpdatePage after findPageByUniqueKey settled
ResumeAfterFind(W, u, out) ==
    IF out.kind = "error"
    THEN OperationFailed(W, u, "top", out)
    ELSE IssueCall(W, u, "top", IF out.page > 0 THEN "update" ELSE "create")

\* the task's promise settles: the slot is freed, the awaiting caller resumes
Settle(W, u, lvl, out) ==
    LET W1 == [W EXCEPT !.units[u][lvl].q = "settled",
                        !.units[u][lvl].pc =
                            IF out.kind = "value" THEN "returned" ELSE "thrown",
                        !.units[u][lvl].call = "none",
                        !.units[u][lvl].result = out]
        W2 == TryToStartAnother(
                  IF lvl = "top"
                  THEN [W1 EXCEPT !.delivered = IF W1.units[u].awaited
                                                 THEN W1.units[u] ELSE @,
                                  !.units[u] = SettledUnit]
                  ELSE W1)
    IN IF lvl = "sub" THEN ResumeAfterFind(W2, u, out) ELSE W2

\* a loop variable kept in the wrapper: the largest attempt of any execution
AttemptShared(W, u, lvl) ==
    LET all == { W.units[t[1]][t[2]].attempt : t \in (DOMAIN W.units) \X Levels }
    IN CHOOSE a \in all : \A b \in all : b <= a

\* for (let attempt = 0; ...): the loop variable of this execution
AttemptOf(W, u, lvl) == W.units[u][lvl].attempt

\* the catch block of withRetry
OperationFailed(W, u, lvl, err) ==
    LET x == [attempt |-> AttemptOf(W, u, lvl)]
        W1 == [W EXCEPT !.units[u][lvl].lastError = CatchLastError(@, err),
                        !.units[u][lvl].nFail = @ + 1,
                        !.units[u][lvl].allRL = @ /\ RateLimitSignal(err),
                        !.units[u][lvl].lastOutcome = err,
                        !.units[u][lvl].call = "none"]
    IN IF ShouldRetry(err, x.attempt, config.maxRetries)
       THEN [W1 EXCEPT !.units[u][lvl].pc = "sleep",
                       !.units[u][lvl].warns = @ + 1,
                       !.units[u][lvl].delays =
                           Append(@, RetryDelay(config.baseDelay, x.attempt))]
       ELSE Settle(W1, u, lvl, W1.units[u][lvl].lastError)

\* the operation returned: withRetry returns its value
OperationSucceeded(W, u, lvl, val) ==
    Settle([W EXCEPT !.units[u][lvl].lastOutcome = val], u, lvl, val)

----------------------------------------------------------------------------
(* The Notion store, as the client calls see it *)

UniqueKey(iid) == <<"MR-", iid>>

Matches(db, prop, key) ==
    { p \in 1..Len(pages) :
        pages[p].db = db /\ pages[p].prop = prop /\ pages[p].key = key }

\* databases.query with the title filter and page_size 1; 0 stands for no result
QueryFirst(db, prop, key) ==
    IF Matches(db, prop, key) = {} THEN 0
    ELSE CHOOSE p \in Matches(db, prop, key) :
             \A r \in Matches(db, prop, key) : p <= r

\* database_id of the query issued by queryDatabase / findPageByUniqueKey
QueryDatabaseId(unit) == config.databaseId

\* parent of pages.create: parent || { database_id: this.config.databaseId }
CreateParent(unit) == OrDefaultStr(unit.parent, config.databaseId)

\* page_id of pages.update / pages.retrieve
TargetPage(unit) ==
    IF unit.method = "createOrUpdatePage" THEN unit.sub.result.page
    ELSE unit.pageId

\* { ...properties, [uniqueKeyProp]: value }
Override(properties, name, value) ==
    [x \in DOMAIN properties \cup {name} |->
        IF x = name THEN value ELSE properties[x]]

\* the argument of databases.query issued by findPageByUniqueKey
QueryPayload(unit) ==
    [database_id |-> QueryDatabaseId(unit),
     property |-> config.uniqueKeyProperty,
     title_equals |-> unit.uniqueKey,
     page_size |-> 1]

\* the argument of pages.update: { page_id: existingPage.id, properties }
UpdatePayload(unit) ==
    [page_id |-> TargetPage(unit), properties |-> unit.properties]

\* the argument of pages.create
CreatePayload(unit) ==
    [parent |-> CreateParent(unit),
     properties |-> Override(unit.properties, config.uniqueKeyProperty,
                             Property("title", unit.uniqueKey))]

\* a store that drops the title of a created page
CreatedPageUntitled(unit) ==
    [db |-> CreateParent(unit), prop |-> config.uniqueKeyProperty, key |-> <<>>]

\* the page pages.create stores: its database, and its title property
CreatedPage(unit) ==
    LET payload == CreatePayload(unit) IN
    [db |-> payload.parent, prop |-> config.uniqueKeyProperty,
     key |-> IF config.uniqueKeyProperty \in DOMAIN payload.properties
             THEN payload.properties[config.uniqueKeyProperty].content
             ELSE <<>>]

\* the store after pages.update: the properties of the payload are written
UpdatedPages(unit) ==
    LET payload == UpdatePayload(unit)
        page == pages[payload.page_id]
    IN IF page.prop \in DOMAIN payload.properties
       THEN [pages EXCEPT ![payload.page_id].key =
                              payload.properties[page.prop].content]
       ELSE pages

InFlight ==
    { t \in (DOMAIN units) \X Levels : units[t[1]][t[2]].pc = "call" }

WrapperState == [units |-> units, queue |-> queue, delivered |-> delivered]

\* the client call of (u, lvl) resolves
ClientResolves(u, lvl) ==
    /\ <<u, lvl>> \in InFlight
    /\ LET unit == units[u]
           c == unit[lvl].call
           o == unit.top.nInv
           i == IF lvl = "sub" THEN unit.sub.nInv ELSE 0
           page == CASE c = "query" ->
                            QueryFirst(QueryDatabaseId(unit),
                                       config.uniqueKeyProperty, unit.uniqueKey)
                     [] c = "create" -> Len(pages) + 1
                     [] OTHER -> TargetPage(unit)
           W == OperationSucceeded(WrapperState, u, lvl, MkValue(page, o, i))
       IN /\ c \in {"update", "retrieve"} => page \in 1..Len(pages)
          /\ pages' = CASE c = "create" -> Append(pages, CreatedPage(unit))
                         [] c = "update" -> UpdatedPages(unit)
                         [] OTHER -> pages
          /\ units' = W.units
          /\ queue' = W.queue
          /\ delivered' = W.delivered
    /\ UNCHANGED <<env, singletons, config, run, runs, prev>>

\* the client call of (u, lvl) rejects
ClientRejects(u, lvl, shape) ==
    /\ <<u, lvl>> \in InFlight
    /\ LET unit == units[u]
           o == unit.top.nInv
           i == IF lvl = "sub" THEN unit.sub.nInv ELSE 0
           W == OperationFailed(WrapperState, u, lvl, MkError(shape, o, i))
       IN /\ units' = W.units
          /\ queue' = W.queue
          /\ delivered' = W.delivered
    /\ UNCHANGED <<env, singletons, config, pages, run, runs, prev>>

\* setTimeout(resolve, delay) fires: continue, attempt++, next iteration
TimerFires(u, lvl) ==
    /\ u \in DOMAIN units
    /\ units[u][lvl].pc = "sleep"
    /\ LET W0 == [WrapperState EXCEPT !.units[u][lvl].attempt = @ + 1]
           W == IF LoopContinues(units[u][lvl].attempt + 1, config.maxRetries)
                THEN InvokeOperation(W0, u, lvl)
                ELSE Settle(W0, u, lvl, units[u][lvl].lastError)
       IN /\ units' = W.units
          /\ queue' = W.queue
          /\ delivered' = W.delivered
    /\ UNCHANGED <<env, singletons, config, pages, run, runs, prev>>

\* a caller invokes a public method of the wrapper
Submit(unit) ==
    /\ Len(units) < MaxUnits
    /\ LET W == QueueAdd([WrapperState EXCEPT !.units = Append(units, unit)],
                         Len(units) + 1, "top")
       IN /\ units' = W.units
          /\ queue' = W.queue
          /\ delivered' = W.delivered
    /\ UNCHANGED <<env, singletons, config, pages, run, runs, prev>>

----------------------------------------------------------------------------
(* syncMrToNotion *)

\* a label as GitLab returns it: a string, or an object with a name
StringLabel(text) == [type |-> "string", value |-> text]
ObjectLabel(name) == [type |-> "object", name |-> name]

\* mr.labels: undefined, or an array
NoLabels == [isArray |-> FALSE, items |-> <<>>]
LabelArray(items) == [isArray |-> TRUE, items |-> items]

\* a merge request of the code host; merged_at 0 stands for null.  id is
\* unique on the host, iid counts within the project
Mr(iid, merged_at, updated_at, labels) ==
    [id |-> iid, project_id |-> 1,
     iid |-> iid, title |-> <<"MR", iid>>, author |-> [name |-> "John Doe"],
     merged_at |-> merged_at, updated_at |-> updated_at, created_at |-> 1,
     web_url |-> <<"merge_requests", iid>>, state |-> "merged",
     source_branch |-> "feature-branch", target_branch |-> "main",
     labels |-> labels]

\* the merge requests the code host may return
MergeRequests ==
    { Mr(1, 5, 5, LabelArray(<<StringLabel("bug")>>)),
      Mr(2, 1, 5, NoLabels) }

RECURSIVE SeqsUpTo(_, _)
SeqsUpTo(S, n) ==
    IF n = 0 THEN { <<>> }
    ELSE SeqsUpTo(S, n - 1) \cup
         { Append(q, x) : q \in { r \in SeqsUpTo(S, n - 1) : Len(r) = n - 1 }, x \in S }

\* what the fetch can resolve with: each merge request of the project once
Batches ==
    { b \in SeqsUpTo(MergeRequests, MaxBatch) :
        \A j, k \in 1..Len(b) : j # k => b[j].iid # b[k].iid }

\* since = now - daysBack days, in days
WindowStart(now, daysBack) == now - daysBack

\* a comparison that takes the window start itself for recent
IsRecentInclusive(mr, since) ==
    (IF mr.merged_at # 0 THEN mr.merged_at ELSE mr.updated_at) >= since

\* new Date(mr.merged_at || mr.updated_at) > since
IsRecent(mr, since) ==
    (IF mr.merged_at # 0 THEN mr.merged_at ELSE mr.updated_at) > since

NoResult == [total |-> 0, created |-> 0, updated |-> 0, failed |-> 0, errors |-> <<>>]

IdleRun ==
    [pc |-> "idle",          \* idle | fetching | upserting | returned | thrown
     given |-> <<>>,         \* the config argument: the fields it holds
     authorUsername |-> "",  \* finalConfig.authorUsername
     projectId |-> "",       \* finalConfig.projectId, "" for undefined
     daysBack |-> 0,         \* finalConfig.daysBack
     until |-> 0,            \* now
     databaseId |-> "",      \* finalConfig.databaseId
     uniqueKeyProperty |-> "",  \* finalConfig.uniqueKeyProperty
     maxRetries |-> 0,       \* finalConfig.maxRetries
     since |-> 0,
     mrs |-> <<>>,           \* what the fetch returned
     idx |-> 0,              \* the record of the loop being upserted
     result |-> NoResult,
     thrown |-> NoOutcome,   \* what syncMrToNotion threw
     fetchError |-> NoOutcome,
     log |-> <<>>,           \* per record: how its createOrUpdatePage call ended
     creates |-> 0,          \* pages.create calls issued by the run
     updates |-> 0]          \* pages.update calls issued by the run

NoPrev == [valid |-> FALSE, mrs |-> <<>>, databaseId |-> "", clean |-> FALSE]

\* how one settled createOrUpdatePage call is remembered by the run's log
Summary(unit) ==
    [key |-> unit.uniqueKey, ok |-> unit.top.result.kind = "value",
     message |-> unit.top.result.message,
     page |-> unit.top.result.page,
     failures |-> unit.top.nFail > 0 \/ unit.sub.nFail > 0]

RunClean(r) ==
    r.pc = "returned" /\ \A k \in 1..Len(r.log) : r.log[k].ok

\* what the next run's start keeps of a finished run: what it fetched when
\* every record was written, only that it ended otherwise
Remembered(r) ==
    IF RunClean(r)
    THEN [valid |-> TRUE, mrs |-> r.mrs, databaseId |-> r.databaseId, clean |-> TRUE]
    ELSE [NoPrev EXCEPT !.valid = TRUE]

\* typeof label === 'string' ? label : label.name
LabelName(label) == IF label.type = "string" THEN label.value ELSE label.name

\* mr.labels && Array.isArray(mr.labels): an array is truthy, also when empty
HasLabels(labels) == labels.isArray

\* a mapping that writes the merged date of every record
HasMergedDateAlways(mr) == TRUE

\* if (mr.merged_at): null is falsy, a timestamp is truthy
HasMergedDate(mr) == mr.merged_at # 0

\* mapMrToNotionProperties(mr)
mapMrToNotionProperties(mr) ==
    ("Title" :> Property("title", mr.title))
    @@ ("Author" :> Property("rich_text", mr.author.name))
    @@ (IF HasMergedDate(mr)
        THEN "Merged Date" :> Property("date", mr.merged_at)
        ELSE NoProperties)
    @@ ("URL" :> Property("url", mr.web_url))
    @@ ("State" :> Property("select", mr.state))
    @@ ("Source Branch" :> Property("rich_text", mr.source_branch))
    @@ ("Target Branch" :> Property("rich_text", mr.target_branch))
    @@ ("Created Date" :> Property("date", mr.created_at))
    @@ ("Updated Date" :> Property("date", mr.updated_at))
    @@ (IF HasLabels(mr.labels)
        THEN "Labels" :> Property("multi_select",
                 [k \in 1..Len(mr.labels.items) |-> LabelName(mr.labels.items[k])])
        ELSE NoProperties)

NotMapped == [pc |-> "idle", mr |-> Mr(0, 0, 0, NoLabels), properties |-> NoProperties]

\* the source records given to the mapping
LabelValues ==
    { StringLabel("bug"), StringLabel("enhancement"),
      ObjectLabel("bug"), ObjectLabel("feature") }

LabelInputs ==
    {NoLabels} \cup { LabelArray(q) : q \in SeqsUpTo(LabelValues, MaxLabels) }

SourceRecords ==
    { Mr(i, m, 5, l) : i \in Iids, m \in {0, 1, 5}, l \in LabelInputs }

\* one application of mapMrToNotionProperties
MapRecord(mr) ==
    /\ mapped' = [pc |-> "mapped", mr |-> mr,
                  properties |-> mapMrToNotionProperties(mr)]
    /\ UNCHANGED <<env, singletons, config, units, queue, delivered, pages, run, runs, prev, host,
                   proc>>

\* the synchronous call createOrUpdatePage({uniqueKey, properties, parent})
UpsertCall(mr, databaseId) ==
    QueueAdd([units |-> <<WithProperties(
                              NewUnit("createOrUpdatePage", UniqueKey(mr.iid),
                                      databaseId, 0, TRUE),
                              mapMrToNotionProperties(mr))>>,
              queue |-> queue, delivered |-> NoUnit], 1, "top")

\* the try block's success path after await createOrUpdatePage
CountSuccess(result, mr, since) ==
    IF IsRecent(mr, since)
    THEN [result EXCEPT !.created = @ + 1]
    ELSE [result EXCEPT !.updated = @ + 1]

\* a catch block that reports the failure without counting it
CountFailureUncounted(result, mr, err) ==
    [result EXCEPT !.errors = Append(@, [mrIid |-> mr.iid, error |-> err.message])]

\* the catch block of the loop body
CountFailure(result, mr, err) ==
    [result EXCEPT !.failed = @ + 1,
                   !.errors = Append(@, [mrIid |-> mr.iid, error |-> err.message])]

\* a loop body whose catch block throws the error again
AfterRecordRethrow(idx, len, out) ==
    IF out.kind = "error" THEN "throw" ELSE IF idx < len THEN "next" ELSE "return"

\* for (const mr of mrs) { try {...} catch {...} }: what follows one record
AfterRecord(idx, len, out) == IF idx < len THEN "next" ELSE "return"

\* an outer catch that throws new Error(errorMessage)
OuterCatchWrapped(err) == [err EXCEPT !.status = 0, !.code = "none"]

\* the outer catch: log, then throw error
OuterCatch(err) == err

SyncNow == 9             \* the day a run starts on (new Date())
DefaultDaysBack == 7
SyncDefaultMaxRetries == 3
SyncDefaultUniqueKeyProp == "MR IID"

\* the SyncConfig fields that hold numbers
NumericFields == {"daysBack", "maxRetries"}

\* JavaScript falsiness of a field's value: 0 for a number, '' for a string
Falsy(field, value) == IF field \in NumericFields THEN value = 0 ELSE value = ""

\* config?.field || envValue || default
Pick(given, field, envValue, default) ==
    IF field \in DOMAIN given /\ ~Falsy(field, given[field]) THEN given[field]
    ELSE IF ~Falsy(field, envValue) THEN envValue
    ELSE default

\* finalConfig: the given config, else the environment, else the defaults
SyncConfig(given) ==
    [authorUsername |-> Pick(given, "authorUsername", env.GITLAB_AUTHOR_USERNAME, ""),
     projectId |-> Pick(given, "projectId", env.GITLAB_PROJECT_ID, ""),
     databaseId |-> Pick(given, "databaseId", env.NOTION_DB_ID, ""),
     uniqueKeyProperty |-> Pick(given, "uniqueKeyProperty",
                                env.NOTION_UNIQUE_KEY_PROP, SyncDefaultUniqueKeyProp),
     daysBack |-> Pick(given, "daysBack", 0, DefaultDaysBack),
     maxRetries |-> Pick(given, "maxRetries", 0, SyncDefaultMaxRetries)]

\* syncMrToNotion(config) up to the await of the fetch
SyncStartGiven(given) ==
    /\ run.pc \in {"idle", "returned", "thrown"}
    /\ runs < MaxRuns
    /\ runs' = runs + 1
    /\ prev' = IF run.pc = "idle" THEN prev ELSE Remembered(run)
    /\ LET finalConfig == SyncConfig(given)
       IN run' = [IdleRun EXCEPT
                     !.pc = "fetching",
                     !.given = given,
                     !.authorUsername = finalConfig.authorUsername,
                     !.projectId = finalConfig.projectId,
                     !.daysBack = finalConfig.daysBack,
                     !.databaseId = finalConfig.databaseId,
                     !.uniqueKeyProperty = finalConfig.uniqueKeyProperty,
                     !.maxRetries = finalConfig.maxRetries,
                     !.since = WindowStart(SyncNow, finalConfig.daysBack),
                     !.until = SyncNow]
    /\ units' = <<>>
    /\ delivered' = NoUnit
    /\ UNCHANGED <<env, singletons, config, queue, pages>>

\* a config argument holding field with one of values, or not holding it
Option(field, values) == { <<>> } \cup { field :> v : v \in values }

\* syncMrToNotion({databaseId, uniqueKeyProperty, maxRetries}), each field
\* left out when it is '' or 0
SyncStartWith(ovDb, ovProp, ovRetries) ==
    \E a \in Option("databaseId", {ovDb} \ {""}),
       b \in Option("uniqueKeyProperty", {ovProp} \ {""}),
       c \in Option("maxRetries", {ovRetries} \ {0}) :
        /\ "databaseId" \in DOMAIN a <=> ovDb # ""
        /\ "uniqueKeyProperty" \in DOMAIN b <=> ovProp # ""
        /\ "maxRetries" \in DOMAIN c <=> ovRetries # 0
        /\ SyncStartGiven(a @@ b @@ c)

\* syncMrToNotion({databaseId}), or syncMrToNotion() when ovDb is ""
SyncStart(ovDb) == SyncStartWith(ovDb, "", 0)

\* the fetch resolves with mrs; the loop starts on the first record
FetchResolves(mrs) ==
    /\ run.pc = "fetching"
    /\ IF mrs = <<>>
       THEN /\ run' = [run EXCEPT !.pc = "returned", !.mrs = mrs,
                                  !.result.total = Len(mrs)]
            /\ UNCHANGED <<units, queue, delivered>>
       ELSE /\ run' = [run EXCEPT !.pc = "upserting", !.mrs = mrs, !.idx = 1,
                                  !.result.total = Len(mrs)]
            /\ LET W == UpsertCall(mrs[1], run.databaseId)
               IN units' = W.units /\ queue' = W.queue /\ delivered' = W.delivered
    /\ UNCHANGED <<env, singletons, config, pages, runs, prev>>

\* the fetch rejects: the outer catch logs and rethrows
FetchRejects(shape) ==
    /\ run.pc = "fetching"
    /\ run' = [run EXCEPT !.pc = "thrown",
                          !.fetchError = MkError(shape, 0, 0),
                          !.thrown = OuterCatch(MkError(shape, 0, 0))]
    /\ UNCHANGED <<env, singletons, config, units, queue, delivered, pages, runs, prev>>

\* a loop that goes on without waiting for the call it made
AwaitSkipped(calls) == TRUE

\* await createOrUpdatePage(...): the loop body goes on when the call settled
AwaitSettled(calls) == calls = <<SettledUnit>>

\* await createOrUpdatePage settles: count, then the next record or return
RecordSettled ==
    /\ run.pc = "upserting"
    /\ AwaitSettled(units)
    /\ LET mr == run.mrs[run.idx]
           out == delivered.top.result
           res == IF out.kind = "value"
                  THEN CountSuccess(run.result, mr, run.since)
                  ELSE CountFailure(run.result, mr, out)
           counted == [run EXCEPT
                          !.result = res,
                          !.log = Append(@, Summary(delivered)),
                          !.creates = UpTo(@ + delivered.calls.create, MaxBatch + 1),
                          !.updates = UpTo(@ + delivered.calls.update, MaxBatch + 1)]
           after == AfterRecord(run.idx, Len(run.mrs), out)
       IN CASE after = "next" ->
                 /\ run' = [counted EXCEPT !.idx = @ + 1]
                 /\ LET W == UpsertCall(run.mrs[run.idx + 1], run.databaseId)
                    IN units' = W.units /\ queue' = W.queue
                       /\ delivered' = W.delivered
            [] after = "return" ->
                 /\ run' = [counted EXCEPT !.pc = "returned"]
                 /\ units' = <<>>
                 /\ delivered' = NoUnit
                 /\ UNCHANGED queue
            [] OTHER ->
                 /\ run' = [counted EXCEPT !.pc = "thrown", !.thrown = OuterCatch(out)]
                 /\ units' = <<>>
                 /\ delivered' = NoUnit
                 /\ UNCHANGED queue
    /\ UNCHANGED <<env, singletons, config, pages, runs, prev>>

----------------------------------------------------------------------------
(* GitLabApiWrapper: listMergedMrs, listMergedMrsByAuthor,                  *)
(* listMergedMrsIterator.  A date argument is absent, a string or a Date;  *)
(* shape says whether a string matches the isoRegex, t is the time         *)
(* new Date(...) gives it (NaN when it gives none).                        *)

NaN == 0 - 1

Absent == [kind |-> "absent", shape |-> FALSE, t |-> NaN]

EmptyText == [kind |-> "string", shape |-> FALSE, t |-> NaN, empty |-> TRUE]

Text(shape, t) == [kind |-> "string", shape |-> shape, t |-> t, empty |-> FALSE]

DateObject(t) == [kind |-> "date", shape |-> FALSE, t |-> t]

Times == {1, 2}

\* '2024-01-01T00:00:00Z', '2024-01-02T00:00:00Z',
\* '2024-13-45T25:61:61Z' (the pattern, but no date),
\* '2024-01-01' (a date, not the pattern), 'invalid-date', ''
DateStrings ==
    { Text(TRUE, t) : t \in Times }
    \cup { Text(TRUE, NaN), Text(FALSE, 1), Text(FALSE, NaN), EmptyText }

DateObjects == { DateObject(t) : t \in Times \cup {NaN} }

\* the values a caller may pass as since / until
DateArgs(method) ==
    IF method = "listMergedMrsIterator" THEN {Absent} \cup DateObjects
    ELSE {Absent} \cup DateStrings \cup DateObjects

\* JavaScript truthiness of a date argument
Truthy(d) == d.kind = "date" \/ (d.kind = "string" /\ ~d.empty)

HostErrors ==
    [format_since |-> [status |-> 0, code |-> "none",
                       message |-> "Invalid ISO 8601 date format for \"since\" parameter"],
     format_until |-> [status |-> 0, code |-> "none",
                       message |-> "Invalid ISO 8601 date format for \"until\" parameter"],
     range |-> [status |-> 0, code |-> "none",
                message |-> "\"since\" must be earlier than \"until\""],
     time |-> [status |-> 0, code |-> "none", message |-> "Invalid time value"]]

\* isoRegex.test(str)
isoString(str) == str.shape

\* Date.prototype.toISOString: a RangeError for an invalid Date
toISOString(d) ==
    IF d.t = NaN THEN MkError(HostErrors.time, 0, 0) ELSE Text(TRUE, d.t)

\* toIso(d); for the iterator, opts?.since?.toISOString()
toIso(d) ==
    IF ~Truthy(d) THEN Absent
    ELSE IF d.kind = "date" THEN toISOString(d) ELSE d

OptionalToIso(d) == IF d.kind = "absent" THEN Absent ELSE toISOString(d)

validateIsoString(dateStr, paramName) ==
    IF Truthy(dateStr) /\ ~isoString(dateStr)
    THEN MkError(HostErrors[paramName], 0, 0)
    ELSE NoOutcome

\* new Date(since) > new Date(until); a comparison with NaN is false
validateDateRange(since, until) ==
    IF Truthy(since) /\ Truthy(until)
       /\ since.t # NaN /\ until.t # NaN /\ since.t > until.t
    THEN MkError(HostErrors.range, 0, 0)
    ELSE NoOutcome

\* the first of a list of outcomes that is an error, or NoOutcome
RECURSIVE FirstError(_)
FirstError(outs) ==
    IF outs = <<>> THEN NoOutcome
    ELSE IF outs[1].kind = "error" THEN outs[1] ELSE FirstError(Tail(outs))

\* the statements of a list method before its try block
Validate(method, since, until) ==
    LET after == IF method = "listMergedMrsIterator" THEN OptionalToIso(since)
                 ELSE toIso(since)
        before == IF method = "listMergedMrsIterator" THEN OptionalToIso(until)
                  ELSE toIso(until)
    IN IF after.kind = "error" THEN after
       ELSE IF before.kind = "error" THEN before
       ELSE FirstError(<< validateIsoString(after, "format_since"),
                          validateIsoString(before, "format_until"),
                          validateDateRange(after, before) >>)

HostMethods == {"listMergedMrs", "listMergedMrsByAuthor", "listMergedMrsIterator"}

IdleHost ==
    [method |-> "none", since |-> Absent, until |-> Absent,
     perPage |-> 0,          \* per_page
     remote |-> 0,           \* records the code host holds, numbered in its order
     pc |-> "idle",          \* idle | calling | yielded | returned | done | thrown
     page |-> 0,             \* the iterator's page variable
     apiCalls |-> 0,         \* client.MergeRequests.all calls issued
     requests |-> <<>>,      \* the page numbers the iterator asked for, in order
     out |-> <<>>,           \* pages yielded, or the one list returned
     thrown |-> NoOutcome,
     apiError |-> NoOutcome, \* the error the code host call raised
     logged |-> <<>>]        \* logger.error calls: their context

Min(a, b) == IF a < b THEN a ELSE b

\* what MergeRequests.all({perPage, page}) answers for one page
PageOf(remote, perPage, page) ==
    LET first == (page - 1) * perPage
        len == IF first >= remote THEN 0 ELSE Min(perPage, remote - first)
    IN [k \in 1..len |-> first + k]

\* what MergeRequests.all answers without a page: every record
AllOf(remote) == [k \in 1..remote |-> k]

\* the filter fields a list method logs with an error
HostFilter(method) ==
    IF method = "listMergedMrsByAuthor" THEN <<"author", "projectId">>
    ELSE <<"projectId">>

\* the context object of logger.error in the catch block
LogContext(h, err) ==
    [filter |-> HostFilter(h.method), since |-> toIso(h.since),
     until |-> toIso(h.until), error |-> err.message]

\* an iterator that goes on after a short page
IteratorStopsNever(pageLen, perPage) == FALSE

\* an iterator that also stops after a full page
IteratorStopsOnFull(pageLen, perPage) == pageLen <= perPage

\* the iterator stops after a page shorter than per_page
IteratorStops(pageLen, perPage) == pageLen < perPage

\* a catch block that throws a new Error with the message
HostCatchWrapped(err) == [err EXCEPT !.status = 0, !.code = "none"]

\* catch (error) { logger.error(...); throw error }
HostCatch(err) == err

\* a list method is called (for the iterator: the first next())
HostCall(method, since, until, perPage, remote) ==
    /\ host.pc = "idle"
    /\ LET invalid == Validate(method, since, until)
           h == [IdleHost EXCEPT !.method = method, !.since = since,
                                 !.until = until, !.perPage = perPage,
                                 !.remote = remote]
       IN host' = IF invalid.kind = "error"
                  THEN [h EXCEPT !.pc = "thrown", !.thrown = invalid]
                  ELSE [h EXCEPT !.pc = "calling", !.page = 1, !.apiCalls = 1,
                                 !.requests =
                                     IF method = "listMergedMrsIterator"
                                     THEN <<1>> ELSE <<>>]

\* client.MergeRequests.all resolves
HostResolves ==
    /\ host.pc = "calling"
    /\ IF host.method = "listMergedMrsIterator"
       THEN LET pageResults == PageOf(host.remote, host.perPage, host.page)
            IN host' = IF Len(pageResults) = 0
                       THEN [host EXCEPT !.pc = "done"]
                       ELSE [host EXCEPT !.pc = "yielded",
                                         !.out = Append(@, pageResults)]
       ELSE host' = [host EXCEPT !.pc = "returned",
                                 !.out = <<AllOf(host.remote)>>]

\* the consumer asks the iterator for the next page
IteratorNext ==
    /\ host.pc = "yielded"
    /\ host' = IF IteratorStops(Len(host.out[Len(host.out)]), host.perPage)
               THEN [host EXCEPT !.pc = "done"]
               ELSE [host EXCEPT !.pc = "calling", !.page = @ + 1,
                                 !.apiCalls = @ + 1,
                                 !.requests = Append(@, host.page + 1)]

\* client.MergeRequests.all rejects
HostRejects(shape) ==
    /\ host.pc = "calling"
    /\ LET err == MkError(shape, 0, 0)
       IN host' = [host EXCEPT !.pc = "thrown",
                               !.apiError = err,
                               !.logged = Append(@, LogContext(host, err)),
                               !.thrown = HostCatch(err)]

----------------------------------------------------------------------------
(* The command line: jobs/index.ts (JOB=<name>) and syncMrNotion.ts *)

\* const jobs = { syncMr: syncMrToNotion }
jobs == {"syncMr"}

\* properties every object inherits from Object.prototype: toString returns
\* when called without a receiver, hasOwnProperty throws a TypeError
InheritedReturning == {"toString"}
InheritedThrowing == {"hasOwnProperty"}

\* jobName in jobs: own and inherited properties
InJobs(jobName) == jobName \in jobs \cup InheritedReturning \cup InheritedThrowing

\* the values of process.env.JOB; "" stands for unset or empty
JobInputs == {"", "syncMr", "unknownJob", "toString", "hasOwnProperty"}

IdleProc ==
    [entry |-> "none",      \* none | jobs | syncMrNotion
     JOB |-> "",
     pc |-> "idle",         \* idle | awaiting | exited
     exitCode |-> 0 - 1,    \* process exit code, -1 while running
     invoked |-> "none",    \* the function called as the job
     printed |-> <<>>]      \* console lines, by kind

\* the process ends: process.exit(code), or code 0 when nothing is left to run
Exit(p, code, lines) ==
    [p EXCEPT !.pc = "exited", !.exitCode = code, !.printed = @ \o lines]

\* exit code after the job returned: runJob drops the result and the process
\* ends with 0; syncMrNotion's main exits with 1 when a record failed
JobExitCode(entry, result) ==
    IF entry = "jobs" THEN 0
    ELSE IF result.failed > 0 THEN 1 ELSE 0

\* main() of jobs/index.ts, and runJob(jobName) up to await job()
MainJobs(jobName) ==
    /\ proc.pc = "idle"
    /\ LET p == [proc EXCEPT !.entry = "jobs", !.JOB = jobName]
       IN CASE jobName = "" ->
                 /\ proc' = Exit(p, 1, <<"required", "usage", "available">>)
                 /\ UNCHANGED <<env, singletons, config, units, queue, delivered, pages, run, runs, prev>>
            [] jobName # "" /\ ~InJobs(jobName) ->
                 /\ proc' = Exit(p, 1, <<"unknown", "available">>)
                 /\ UNCHANGED <<env, singletons, config, units, queue, delivered, pages, run, runs, prev>>
            [] jobName \in jobs ->
                 /\ proc' = [p EXCEPT !.pc = "awaiting", !.invoked = jobName,
                                      !.printed = <<"running">>]
                 /\ SyncStart("")
            [] jobName \in InheritedReturning /\ InJobs(jobName) ->
                 /\ proc' = Exit([p EXCEPT !.invoked = jobName], 0,
                                 <<"running", "completed">>)
                 /\ UNCHANGED <<env, singletons, config, units, queue, delivered, pages, run, runs, prev>>
            [] OTHER ->
                 /\ proc' = Exit([p EXCEPT !.invoked = jobName], 1,
                                 <<"running", "failed">>)
                 /\ UNCHANGED <<env, singletons, config, units, queue, delivered, pages, run, runs, prev>>
    /\ UNCHANGED <<host, mapped>>

\* main() of syncMrNotion.ts up to await syncMrToNotion()
MainSyncMrNotion ==
    /\ proc.pc = "idle"
    /\ proc' = [proc EXCEPT !.entry = "syncMrNotion", !.pc = "awaiting",
                            !.invoked = "syncMr"]
    /\ SyncStart("")
    /\ UNCHANGED <<host, mapped>>

\* await job() / await syncMrToNotion() settles
JobSettles ==
    /\ proc.pc = "awaiting"
    /\ run.pc \in {"returned", "thrown"}
    /\ proc' = IF run.pc = "thrown"
               THEN Exit(proc, 1, <<"failed">>)
               ELSE Exit(proc, JobExitCode(proc.entry, run.result),
                         IF proc.entry = "jobs" THEN <<"completed">>
                         ELSE IF Len(run.result.errors) > 0
                              THEN <<"synced", "errors">> ELSE <<"synced">>)
    /\ UNCHANGED <<env, singletons, config, units, queue, delivered, pages, run, runs, prev, host,
                   mapped>>

----------------------------------------------------------------------------
(* Specifications *)

UniqueKeys == { UniqueKey(i) : i \in Iids }

NoPages == <<>>

\* a store holding one page written earlier
OnePage(prop) == << [db |-> ENV_NOTION_DB_ID, prop |-> prop, key |-> UniqueKey(1)] >>

InitWith(retryOverrides, delayOverrides, envProps, withPage) ==
    /\ \E r \in retryOverrides, d \in delayOverrides, e \in envProps :
           /\ env = [GITLAB_AUTHOR_USERNAME |-> "testuser",
                     GITLAB_PROJECT_ID |-> "12345",
                     NOTION_DB_ID |-> ENV_NOTION_DB_ID,
                     NOTION_UNIQUE_KEY_PROP |-> e]
           /\ config = parseEnvConfig("", "", e, r, d)
    /\ singletons = ImportedSingletons
    /\ units = <<>>
    /\ queue = <<>>
    /\ delivered = NoUnit
    /\ pages \in { IF b THEN OnePage(config.uniqueKeyProperty) ELSE NoPages :
                     b \in withPage }
    /\ run = IdleRun
    /\ runs = 0
    /\ prev = NoPrev
    /\ host = IdleHost
    /\ proc = IdleProc
    /\ mapped = NotMapped

WrapperSteps(shapes) ==
    \/ \E u \in DOMAIN units, lvl \in Levels : ClientResolves(u, lvl)
    \/ \E u \in DOMAIN units, lvl \in Levels, shape \in shapes :
           ClientRejects(u, lvl, shape)
    \/ \E u \in DOMAIN units, lvl \in Levels : TimerFires(u, lvl)

WrapperWith(shapes) == WrapperSteps(shapes) /\ UNCHANGED <<host, proc, mapped>>

\* the rejections the store answers with in the specifications of many steps
StatusShapes == { e \in ErrorShapes : e.status # 0 }

SyncSteps ==
    \/ \E mrs \in Batches : FetchResolves(mrs)
    \/ \E shape \in StatusShapes : FetchRejects(shape)
    \/ RecordSettled

SyncWith(first) ==
    /\ \/ \E ovDb \in {"", CustomDbId} : (first => runs = 0) /\ SyncStart(ovDb)
       \/ SyncSteps
    /\ UNCHANGED <<host, proc, mapped>>

\* successive runs of the sync job; the wrapper singleton is built from the
\* environment alone
Init == InitWith({0}, {0}, {""}, {FALSE})

Next == SyncWith(FALSE) \/ WrapperWith(StatusShapes)

Spec == Init /\ [][Next]_vars

\* one run of the sync job
NextRun == SyncWith(TRUE) \/ WrapperWith(StatusShapes)

InitRun == InitWith({0}, {0}, {""}, {FALSE})

SpecRun == InitRun /\ [][NextRun]_vars

\* one caller, one wrapper call: withRetry under every configuration
InitRetry == InitWith(0..MaxRetryOverride, {0, TestBaseDelay}, {""}, BOOLEAN)

RetryUnits ==
    { NewUnit("createOrUpdatePage", k, p, 0, TRUE) :
          k \in UniqueKeys, p \in {"", CustomDbId} }
    \cup { NewUnit("queryDatabase", k, "", 0, TRUE) : k \in UniqueKeys }
    \cup { NewUnit(m, UniqueKey(1), "", 1, TRUE) : m \in {"getPage", "updatePage"} }

SubmitOne ==
    /\ \E unit \in RetryUnits : units = <<>> /\ Submit(unit)
    /\ UNCHANGED <<host, proc, mapped>>

NextRetry == SubmitOne \/ WrapperWith(ErrorShapes)

SpecRetry == InitRetry /\ [][NextRetry]_vars

\* several callers submitting concurrently to one wrapper
InitQueue == InitWith({1}, {TestBaseDelay}, {""}, {TRUE})

QueueUnits ==
    { NewUnit("createOrUpdatePage", UniqueKey(1), "", 0, FALSE),
      NewUnit("getPage", UniqueKey(1), "", 1, FALSE) }

SubmitAny ==
    /\ \E unit \in QueueUnits : Submit(unit)
    /\ UNCHANGED <<host, proc, mapped>>

NextQueue == SubmitAny \/ WrapperWith(StatusShapes)

SpecQueue == InitQueue /\ [][NextQueue]_vars

\* the same, with every store call answered and every timer firing in the end
FairSpecQueue == SpecQueue /\ WF_vars(WrapperWith(StatusShapes))

\* callers that keep their promises, MaxConcurrent calls in all
MaxConcurrent == 2

ReentrantUnits ==
    { NewUnit("createOrUpdatePage", UniqueKey(1), "", 0, TRUE),
      NewUnit("queryDatabase", UniqueKey(2), "", 0, TRUE),
      NewUnit("getPage", UniqueKey(1), "", 1, TRUE) }

SubmitConcurrent ==
    /\ \E unit \in ReentrantUnits : Len(units) < MaxConcurrent /\ Submit(unit)
    /\ UNCHANGED <<host, proc, mapped>>

NextReentrant == SubmitConcurrent \/ WrapperWith(StatusShapes)

SpecReentrant == InitQueue /\ [][NextReentrant]_vars

\* concurrent createOrUpdatePage calls on an empty store, in one database
InitRace == InitWith({1}, {TestBaseDelay}, {""}, {FALSE})

RaceUnits ==
    { NewUnit("createOrUpdatePage", k, "", 0, TRUE) : k \in UniqueKeys }

SubmitRace ==
    /\ \E unit \in RaceUnits : Len(units) < MaxConcurrent /\ Submit(unit)
    /\ UNCHANGED <<host, proc, mapped>>

NextRace == SubmitRace \/ WrapperWith(StatusShapes)

SpecRace == InitRace /\ [][NextRace]_vars

\* one run over records merged or updated before, at and after the window
\* start, on a store that holds the first record's page or none
InitClassify == InitWith({0}, {0}, {""}, BOOLEAN)

ClassifyDates == {WindowStart(SyncNow, DefaultDaysBack), SyncNow - 4}

ClassifyRecords ==
    { Mr(i, m, u, NoLabels) : i \in Iids, m \in {0} \cup ClassifyDates,
                               u \in ClassifyDates }

ClassifyBatches ==
    { b \in SeqsUpTo(ClassifyRecords, MaxBatch) :
        \A j, k \in 1..Len(b) : j # k => b[j].iid # b[k].iid }

\* the rejections that withRetry does not retry
FatalShapes == { e \in ErrorShapes : ~RateLimitSignal(MkError(e, 0, 0)) }

NextClassify ==
    \/ (runs = 0 /\ SyncStart("")) /\ UNCHANGED <<host, proc, mapped>>
    \/ (\E mrs \in ClassifyBatches : FetchResolves(mrs))
           /\ UNCHANGED <<host, proc, mapped>>
    \/ RecordSettled /\ UNCHANGED <<host, proc, mapped>>
    \/ WrapperWith(FatalShapes)

SpecClassify == InitClassify /\ [][NextClassify]_vars

\* one run over the merge requests of an author in several projects
\* (GITLAB_PROJECT_ID unset: scope 'all'), on an empty store
Projects == {1, 2}

\* the merge request iid of a project: the host numbers merge requests
\* across projects with id, within a project with iid
InProject(project, iid) ==
    [Mr(iid, 5, 5, NoLabels) EXCEPT
        !.project_id = project,
        !.id = (project - 1) * Cardinality(Iids) + iid,
        !.web_url = <<"project", project, "merge_requests", iid>>]

ProjectRecords == { InProject(p, i) : p \in Projects, i \in Iids }

ProjectBatches ==
    { b \in SeqsUpTo(ProjectRecords, MaxBatch) :
        \A j, k \in 1..Len(b) : j # k => b[j].id # b[k].id }

NextProjects ==
    \/ (runs = 0 /\ SyncStart("")) /\ UNCHANGED <<host, proc, mapped>>
    \/ (\E mrs \in ProjectBatches : FetchResolves(mrs))
           /\ UNCHANGED <<host, proc, mapped>>
    \/ RecordSettled /\ UNCHANGED <<host, proc, mapped>>
    \/ WrapperWith(FatalShapes)

SpecProjects == Init /\ [][NextProjects]_vars

\* one createOrUpdatePage call, under each unique-key property name and with
\* properties that do and do not hold that property
InitUpsert == InitWith({1}, {0}, {"", "Title"}, BOOLEAN)

PropertyInputs ==
    { NoProperties,
      mapMrToNotionProperties(Mr(1, 5, 5, NoLabels)),
      DEFAULT_UNIQUE_KEY_PROP :> Property("title", <<"MR", 1>>) }

UpsertUnits ==
    { WithProperties(NewUnit("createOrUpdatePage", k, p, 0, TRUE), q) :
          k \in UniqueKeys, p \in {"", CustomDbId}, q \in PropertyInputs }

SubmitUpsert ==
    /\ \E unit \in UpsertUnits : units = <<>> /\ Submit(unit)
    /\ UNCHANGED <<host, proc, mapped>>

NextUpsert == SubmitUpsert \/ WrapperWith(StatusShapes)

SpecUpsert == InitUpsert /\ [][NextUpsert]_vars

\* one run of the sync job, started with and without a given uniqueKeyProperty
\* and maxRetries, under each NOTION_UNIQUE_KEY_PROP
InitConfigured == InitWith({0}, {0}, {"", "Title"}, {FALSE})

MaxGivenRetries == 1

SyncStartConfigured ==
    /\ \E ovProp \in {"", "Key"}, ovRetries \in 0..MaxGivenRetries :
           runs = 0 /\ SyncStartWith("", ovProp, ovRetries)
    /\ UNCHANGED <<host, proc, mapped>>

NextConfigured ==
    \/ SyncStartConfigured
    \/ SyncSteps /\ UNCHANGED <<host, proc, mapped>>
    \/ WrapperWith(StatusShapes)

SpecConfigured == InitConfigured /\ [][NextConfigured]_vars

\* getInstance and resetForTests called in any order on both classes
NextSingleton ==
    \/ \E c \in WrapperClasses, given \in 0..MaxGivenRetries : GetInstance(c, given)
    \/ \E c \in WrapperClasses : ResetForTests(c)

SpecSingleton == Init /\ [][NextSingleton]_vars

\* the start of a run under every config argument: each field left out,
\* given, or given as 0 where it is a number
GivenConfigs ==
    { a @@ b @@ c @@ d @@ e @@ f :
        a \in Option("authorUsername", {"other-user"}),
        b \in Option("projectId", {"custom-project-id"}),
        c \in Option("databaseId", {CustomDbId}),
        d \in Option("uniqueKeyProperty", {"Key"}),
        e \in Option("daysBack", {0, 2 * DefaultDaysBack}),
        f \in Option("maxRetries", {0, 1}) }

NextPrecedence ==
    /\ \/ \E given \in GivenConfigs : runs = 0 /\ SyncStartGiven(given)
       \/ FetchResolves(<<>>)
       \/ \E shape \in StatusShapes : FetchRejects(shape)
    /\ UNCHANGED <<host, proc, mapped>>

SpecPrecedence == InitConfigured /\ [][NextPrecedence]_vars

\* the list methods of the GitLabApiWrapper, one call
NextHost ==
    /\ \/ \E m \in HostMethods, p \in 1..MaxPerPage, n \in 0..MaxRemote :
              \E since \in DateArgs(m), until \in DateArgs(m) :
                  HostCall(m, since, until, p, n)
       \/ HostResolves
       \/ IteratorNext
       \/ \E shape \in StatusShapes : HostRejects(shape)
    /\ UNCHANGED <<env, singletons, config, units, queue, delivered, pages, run, runs, prev, proc,
                   mapped>>

SpecHost == Init /\ [][NextHost]_vars

\* one process started from the command line, running the sync job
NextJob ==
    \/ \E jobName \in JobInputs : MainJobs(jobName)
    \/ MainSyncMrNotion
    \/ SyncSteps /\ UNCHANGED <<host, proc, mapped>>
    \/ JobSettles
    \/ WrapperWith(StatusShapes)

SpecJob == Init /\ [][NextJob]_vars

\* the property mapping applied to source records
NextMap == \E mr \in SourceRecords : MapRecord(mr)

SpecMap == Init /\ [][NextMap]_vars

----------------------------------------------------------------------------
(* Properties of withRetry (SpecRetry) *)

\* every withRetry execution the state holds: those of the calls in progress
\* and those of the call delivered last
Execs ==
    { units[u][lvl] : u \in DOMAIN units, lvl \in Levels }
        \cup { delivered.top, delivered.sub }

\* baseDelay * 2^0, ..., baseDelay * 2^(k-1)
Backoff(k) == [j \in 1..k |-> config.baseDelay * (2 ^ (j - 1))]

\* C1  Retry exhaustion: an execution whose operation failed with the
\* rate-limit signal every time invokes it exactly maxRetries+1 times, with
\* maxRetries sleeps and maxRetries warnings, and then throws the rate-limit
\* error of its last attempt; it never stops earlier.
RetryExhaustion ==
    \A x \in Execs :
        /\ x.nInv <= config.maxRetries + 1
        /\ (x.pc = "thrown" /\ x.allRL) =>
               /\ x.nInv = config.maxRetries + 1
               /\ x.nFail = config.maxRetries + 1
               /\ Len(x.delays) = config.maxRetries
               /\ x.warns = config.maxRetries
               /\ x.result = x.lastOutcome
               /\ RateLimitSignal(x.result)

RetryExhaustionWitness ==
    /\ config.maxRetries = DEFAULT_MAX_RETRIES
    /\ delivered.method = "getPage"
    /\ delivered.top.pc = "thrown"
    /\ delivered.top.allRL
    /\ delivered.top.nInv = DEFAULT_MAX_RETRIES + 1

\* C2  Retry success: an execution that returns after k rate-limited failures
\* has invoked the operation k+1 times, slept k times with the delays
\* baseDelay*2^0 .. baseDelay*2^(k-1) in order, warned k times, and returns
\* the value of the last invocation.
RetrySuccess ==
    \A x \in Execs :
        x.pc = "returned" =>
            /\ x.allRL
            /\ x.nFail <= config.maxRetries
            /\ x.nInv = x.nFail + 1
            /\ x.delays = Backoff(x.nFail)
            /\ x.warns = x.nFail
            /\ x.result = x.lastOutcome
            /\ x.result.kind = "value"

RetrySuccessWitness ==
    /\ config.maxRetries = MaxRetryOverride
    /\ delivered.top.pc = "returned"
    /\ delivered.top.nFail = MaxRetryOverride - 1
    /\ Len(delivered.top.delays) = MaxRetryOverride - 1

\* C3  Non-retry: once an invocation failed with an error that is not the
\* rate-limit signal, the execution has thrown that very error, with no
\* invocation, no sleep and no warning after it (each earlier rate-limited
\* failure accounts for exactly one sleep and one warning).
NonRetry ==
    \A x \in Execs :
        (x.lastOutcome.kind = "error" /\ ~RateLimitSignal(x.lastOutcome)) =>
            /\ x.pc = "thrown"
            /\ x.result = x.lastOutcome
            /\ x.nInv = x.nFail
            /\ Len(x.delays) = x.nFail - 1
            /\ x.warns = x.nFail - 1

NonRetryWitness ==
    /\ delivered.method = "getPage"
    /\ delivered.top.pc = "thrown"
    /\ ~RateLimitSignal(delivered.top.result)
    /\ delivered.top.nFail = 2

----------------------------------------------------------------------------
(* Properties of the limiter (SpecQueue, FairSpecQueue) *)

Unsettled == { u \in DOMAIN units : units[u] # SettledUnit }

\* C4  Limiter liveness: every submitted wrapper call eventually settles
\* (returns or throws), given that every store call is answered.
LimiterLiveness ==
    \A u \in 1..MaxUnits : (u \in DOMAIN units) ~> (u \in DOMAIN units /\ u \notin Unsettled)

\* C5  Limiter bound: at most 3 queue tasks are running and at most 3 store
\* calls are in flight, whatever was submitted.
LimiterBound ==
    /\ PendingCount(WrapperState) <= 3
    /\ Cardinality(InFlight) <= 3

LimiterBoundWitness ==
    /\ PendingCount(WrapperState) = 3
    /\ Cardinality(InFlight) = 3
    /\ queue # <<>>
    /\ Len(units) > 3

----------------------------------------------------------------------------
(* Properties of syncMrToNotion (Spec: successive runs, SpecRun: one run) *)

RunEnded == run.pc \in {"returned", "thrown"}

PagesWith(db, key) ==
    { p \in 1..Len(pages) : pages[p].db = db /\ pages[p].key = key }

\* C6  At most one record per key: when a run has ended, no database holds
\* two pages carrying the same sync key.
AtMostOnePerKey ==
    RunEnded =>
        \A p \in 1..Len(pages) : Cardinality(PagesWith(pages[p].db, pages[p].key)) <= 1

\* the second of two runs that fetched the same records under the same
\* configuration, every record of both written without failure
SecondRunOfTwo ==
    /\ run.pc = "returned"
    /\ prev.valid /\ prev.clean
    /\ prev.mrs = run.mrs
    /\ prev.databaseId = run.databaseId
    /\ RunClean(run)

\* C7  Idempotence: after such a second run the target database holds exactly
\* one page per key of the batch, and the second run issued no create call.
Idempotence ==
    SecondRunOfTwo =>
        /\ run.creates = 0
        /\ \A k \in 1..Len(run.mrs) :
               Cardinality(PagesWith(run.databaseId, UniqueKey(run.mrs[k].iid))) = 1

\* the key of the createOrUpdatePage call the run is waiting for
CurrentKey == IF units = <<SettledUnit>> THEN delivered.uniqueKey ELSE units[1].uniqueKey

\* C8  Partial-failure isolation: a run throws only when its fetch failed;
\* otherwise createOrUpdatePage is called once for every fetched record, in
\* order, whichever of them fail.
PartialFailureIsolation ==
    /\ run.pc = "thrown" => run.fetchError # NoOutcome
    /\ Len(run.log) <= Len(run.mrs)
    /\ \A k \in 1..Len(run.log) : run.log[k].key = UniqueKey(run.mrs[k].iid)
    /\ run.pc = "returned" => Len(run.log) = Len(run.mrs)
    /\ run.pc = "upserting" =>
           /\ Len(units) = 1
           /\ Len(run.log) = run.idx - 1
           /\ CurrentKey = UniqueKey(run.mrs[run.idx].iid)

PartialFailureIsolationWitness ==
    /\ run.pc = "returned"
    /\ Len(run.mrs) = 2
    /\ ~run.log[1].ok
    /\ run.log[2].ok

\* C9  Fatal fetch: when the fetch failed, the run has thrown that same error,
\* returned no result and issued no store call.
FatalFetch ==
    run.fetchError # NoOutcome =>
        /\ run.pc = "thrown"
        /\ run.thrown = run.fetchError
        /\ units = <<>>
        /\ InFlight = {}
        /\ run.log = <<>>
        /\ run.creates = 0 /\ run.updates = 0

FatalFetchWitness ==
    /\ run.pc = "thrown"
    /\ run.fetchError.status = 500
    /\ run.thrown.status = 500

RECURSIVE FailuresOf(_, _)
\* the {mrIid, error} entries of the records whose call failed, in fetch order
FailuresOf(mrs, log) ==
    IF log = <<>> THEN <<>>
    ELSE LET n == Len(log)
             rest == FailuresOf(mrs, SubSeq(log, 1, n - 1))
         IN IF log[n].ok THEN rest
            ELSE Append(rest, [mrIid |-> mrs[n].iid, error |-> log[n].message])

\* C10  Result accounting: a returned result has total = number of fetched
\* records, created + updated + failed = total, and errors holds exactly the
\* iid and message of each failed record, in fetch order.
ResultAccounting ==
    run.pc = "returned" =>
        /\ run.result.total = Len(run.mrs)
        /\ run.result.created + run.result.updated + run.result.failed
               = run.result.total
        /\ Len(run.result.errors) = run.result.failed
        /\ run.result.errors = FailuresOf(run.mrs, run.log)

ResultAccountingWitness ==
    /\ run.pc = "returned"
    /\ run.result.total = 2
    /\ run.result.failed = 1
    /\ run.result.created + run.result.updated = 1
    /\ run.log[1].ok /\ ~run.log[2].ok

----------------------------------------------------------------------------
(* Properties of the reported counts *)

\* a first run on an empty store that returned with no store call rejected
FirstRunAllWritten ==
    /\ run.pc = "returned"
    /\ runs = 1
    /\ \A k \in 1..Len(run.log) : run.log[k].ok /\ ~run.log[k].failures

\* C11  Created count matches creates: a run that fetched n records with
\* distinct iids, none in the target, no write failing, reports total = n,
\* created = n, updated = 0, failed = 0 and issued n creates, one per key,
\* in fetch order.
CreatedMatchesCreates ==
    FirstRunAllWritten =>
        /\ run.result.total = Len(run.mrs)
        /\ run.result.created = Len(run.mrs)
        /\ run.result.updated = 0
        /\ run.result.failed = 0
        /\ run.creates = Len(run.mrs)
        /\ Len(pages) = Len(run.mrs)
        /\ \A k \in 1..Len(pages) : pages[k].key = UniqueKey(run.mrs[k].iid)

----------------------------------------------------------------------------
(* Properties of the GitLabApiWrapper list methods (SpecHost) *)

\* a since / until that denotes a time: a Date, or a string in the ISO form
WellFormed(d) ==
    \/ d.kind = "date" /\ d.t # NaN
    \/ d.kind = "string" /\ d.shape /\ d.t # NaN

\* a string that is no ISO 8601 date
Malformed(d) == d.kind = "string" /\ ~(d.shape /\ d.t # NaN)

\* C12  Date-range validation: a list method called with since and until both
\* given and since >= until fails with '"since" must be earlier than "until"'
\* and calls the code host never.
DateRangeValidation ==
    ( /\ host.method \in HostMethods
      /\ WellFormed(host.since) /\ WellFormed(host.until)
      /\ host.since.t >= host.until.t )
    => /\ host.pc = "thrown"
       /\ host.thrown.message = HostErrors.range.message
       /\ host.apiCalls = 0

\* C13  Date-format validation: listMergedMrs and listMergedMrsByAuthor called
\* with a malformed since or until string fail before any call to the code
\* host with the format error naming the parameter, "since" when both are.
DateFormatValidation ==
    ( /\ host.method \in {"listMergedMrs", "listMergedMrsByAuthor"}
      /\ host.since.kind \in {"absent", "string"}
      /\ host.until.kind \in {"absent", "string"}
      /\ Malformed(host.since) \/ Malformed(host.until) )
    => /\ host.pc = "thrown"
       /\ host.apiCalls = 0
       /\ host.thrown.message =
              IF Malformed(host.since) THEN HostErrors.format_since.message
              ELSE HostErrors.format_until.message

RECURSIVE Flatten(_)
Flatten(pgs) == IF pgs = <<>> THEN <<>> ELSE pgs[1] \o Flatten(Tail(pgs))

\* ceil(n / p)
Ceil(n, p) == (n + p - 1) \div p

\* C14  Paginated iteration is finite and complete: the iterator never yields
\* an empty page, yields the records in remote order, asks for a further
\* page only after full pages, and ends after exactly ceil(n/p) pages whose
\* concatenation is the n records.
PaginationComplete ==
    host.method = "listMergedMrsIterator" =>
        /\ \A k \in 1..Len(host.out) : Len(host.out[k]) > 0
        /\ Len(host.out) <= Ceil(host.remote, host.perPage)
        /\ host.apiCalls <= Ceil(host.remote, host.perPage) + 1
        /\ Flatten(host.out) = SubSeq(AllOf(host.remote), 1, Len(Flatten(host.out)))
        /\ host.pc = "calling" =>
               \A k \in 1..Len(host.out) : Len(host.out[k]) = host.perPage
        /\ host.pc = "done" =>
               /\ Len(host.out) = Ceil(host.remote, host.perPage)
               /\ Flatten(host.out) = AllOf(host.remote)
               /\ \A k \in 1..(Len(host.out) - 1) : Len(host.out[k]) = host.perPage

PaginationCompleteWitness ==
    /\ host.method = "listMergedMrsIterator"
    /\ host.pc = "done"
    /\ host.remote = 4 /\ host.perPage = 2
    /\ Len(host.out) = 2
    /\ host.apiCalls = 3

\* C15  Source-reader errors are surfaced: an error of the code-host call is
\* logged once with the filter and the window and thrown unchanged; the
\* iterator has by then yielded every earlier page.
ErrorsSurfaced ==
    /\ host.logged # <<>> => host.apiError # NoOutcome
    /\ host.apiError # NoOutcome =>
           /\ host.pc = "thrown"
           /\ host.thrown = host.apiError
           /\ host.logged = << [filter |-> HostFilter(host.method),
                                since |-> toIso(host.since),
                                until |-> toIso(host.until),
                                error |-> host.apiError.message] >>
           /\ host.method = "listMergedMrsIterator" =>
                  /\ Len(host.out) = host.page - 1
                  /\ Flatten(host.out) = AllOf((host.page - 1) * host.perPage)

ErrorsSurfacedWitness ==
    /\ host.method = "listMergedMrsIterator"
    /\ host.pc = "thrown"
    /\ host.apiError.status = 500
    /\ Len(host.out) = 1
    /\ Len(host.logged) = 1

----------------------------------------------------------------------------
(* Properties of the command line (SpecJob) *)

Printed(line) == \E k \in 1..Len(proc.printed) : proc.printed[k] = line

\* C16  Exit code surfaces partial failure: a job started through the JOB
\* dispatch whose run returned exits with code 1 when a record failed and
\* with code 0 when none did.
ExitCodeSurfacesFailure ==
    ( /\ proc.entry = "jobs"
      /\ proc.pc = "exited"
      /\ proc.invoked \in jobs
      /\ run.pc = "returned" )
    => proc.exitCode = IF run.result.failed > 0 THEN 1 ELSE 0

\* C17  Job dispatch rejects bad names: with JOB no registered job name the
\* process prints the available names (the usage when JOB is missing or
\* empty), exits with code 1 and invokes no job.
DispatchRejectsBadNames ==
    ( /\ proc.entry = "jobs"
      /\ proc.JOB \notin jobs )
    => /\ proc.pc = "exited"
       /\ proc.exitCode = 1
       /\ proc.invoked = "none"
       /\ runs = 0
       /\ Printed("available")
       /\ proc.JOB = "" => Printed("usage")

----------------------------------------------------------------------------
(* Properties of mapMrToNotionProperties (SpecMap) *)

\* C20  Labels are conditional: the mapped properties contain "Labels" if and
\* only if the record's labels are present and non-empty, and then hold one
\* entry per label, in order: the label itself when it is a string, its name
\* when it is a {name} object.
LabelsConditional ==
    mapped.pc = "mapped" =>
        LET labels == mapped.mr.labels
            present == labels.isArray /\ labels.items # <<>>
        IN /\ ("Labels" \in DOMAIN mapped.properties) <=> present
           /\ present =>
                  /\ Len(mapped.properties["Labels"].content) = Len(labels.items)
                  /\ \A k \in 1..Len(labels.items) :
                         mapped.properties["Labels"].content[k] =
                             IF labels.items[k].type = "string"
                             THEN labels.items[k].value
                             ELSE labels.items[k].name

\* the properties every mapped record holds
AlwaysMapped ==
    {"Title", "Author", "URL", "State", "Source Branch", "Target Branch",
     "Created Date", "Updated Date"}

\* C21  Mapped key set: the mapped properties hold exactly Title, Author, URL,
\* State, Source Branch, Target Branch, Created Date and Updated Date, plus
\* "Merged Date" if and only if merged_at is not null, plus possibly Labels,
\* and each value is the corresponding field of the record.
MappedKeySet ==
    mapped.pc = "mapped" =>
        LET mr == mapped.mr
            p == mapped.properties
        IN /\ DOMAIN p \ {"Labels"} =
                  AlwaysMapped \cup (IF mr.merged_at # 0 THEN {"Merged Date"} ELSE {})
           /\ p["Title"] = Property("title", mr.title)
           /\ p["Author"] = Property("rich_text", mr.author.name)
           /\ p["URL"] = Property("url", mr.web_url)
           /\ p["State"] = Property("select", mr.state)
           /\ p["Source Branch"] = Property("rich_text", mr.source_branch)
           /\ p["Target Branch"] = Property("rich_text", mr.target_branch)
           /\ p["Created Date"] = Property("date", mr.created_at)
           /\ p["Updated Date"] = Property("date", mr.updated_at)
           /\ mr.merged_at # 0 => p["Merged Date"] = Property("date", mr.merged_at)

\* an unmerged record with labels was mapped: no Merged Date, Labels present
MappedKeySetWitness ==
    /\ mapped.pc = "mapped"
    /\ mapped.mr.merged_at = 0
    /\ "Merged Date" \notin DOMAIN mapped.properties
    /\ "Labels" \in DOMAIN mapped.properties
    /\ "Title" \in DOMAIN mapped.properties

----------------------------------------------------------------------------
(* Properties of createOrUpdatePage's store calls (SpecUpsert) *)

\* a createOrUpdatePage call that returned with no store call rejected
UpsertReturned ==
    /\ delivered.method = "createOrUpdatePage"
    /\ delivered.top.result.kind = "value"
    /\ delivered.top.nFail = 0
    /\ delivered.sub.nFail = 0

\* C18  Update leaves the unique key alone: a createOrUpdatePage call whose
\* lookup found a record issues one update for that record's id and no
\* create, and the update payload does not hold the unique-key property, so
\* the record keeps its key.
UpdateLeavesKeyAlone ==
    (UpsertReturned /\ delivered.sub.result.page > 0) =>
        /\ delivered.calls.update = 1
        /\ delivered.calls.create = 0
        /\ UpdatePayload(delivered).page_id = delivered.sub.result.page
        /\ delivered.top.result.page = delivered.sub.result.page
        /\ config.uniqueKeyProperty \notin DOMAIN UpdatePayload(delivered).properties
        /\ pages[delivered.sub.result.page].key = delivered.uniqueKey

\* C19  Create writes the key that the lookup reads: a createOrUpdatePage call
\* whose lookup found no record issues one create and no update; the payload
\* is the given properties plus the unique-key property set to uniqueKey; the
\* lookup filters on that property equal to uniqueKey with page size 1; and
\* the created record is matched by the next lookup for the key.
CreateWritesLookupKey ==
    (UpsertReturned /\ delivered.sub.result.page = 0) =>
        /\ delivered.calls.create = 1
        /\ delivered.calls.update = 0
        /\ \A x \in DOMAIN delivered.properties \ {config.uniqueKeyProperty} :
               CreatePayload(delivered).properties[x] = delivered.properties[x]
        /\ DOMAIN CreatePayload(delivered).properties =
               DOMAIN delivered.properties \cup {config.uniqueKeyProperty}
        /\ CreatePayload(delivered).properties[config.uniqueKeyProperty] =
               Property("title", delivered.uniqueKey)
        /\ QueryPayload(delivered).property = config.uniqueKeyProperty
        /\ QueryPayload(delivered).title_equals = delivered.uniqueKey
        /\ QueryPayload(delivered).page_size = 1
        /\ delivered.top.result.page \in
               Matches(QueryPayload(delivered).database_id,
                       QueryPayload(delivered).property,
                       QueryPayload(delivered).title_equals)

----------------------------------------------------------------------------
(* Properties of the configuration of a run (SpecConfigured) *)

\* C22  Retry budget of a run: during a sync run no store call is retried more
\* often than the run's resolved maxRetries (3 when nothing is configured).
RetryBudgetOfRun ==
    run.pc = "upserting" =>
        \A u \in DOMAIN units, lvl \in Levels :
            /\ units[u][lvl].attempt <= run.maxRetries
            /\ Len(units[u][lvl].delays) <= run.maxRetries

\* C23  Default unique-key property: when NOTION_UNIQUE_KEY_PROP is not set and
\* no uniqueKeyProperty is given, the lookup of a sync run filters on "MR IID"
\* and the create writes "MR IID", the run's resolved uniqueKeyProperty.
DefaultUniqueKeyProperty ==
    (/\ run.pc # "idle"
     /\ env.NOTION_UNIQUE_KEY_PROP = ""
     /\ run.uniqueKeyProperty = SyncDefaultUniqueKeyProp) =>
        /\ \A u \in DOMAIN units :
               units[u].calls.query > 0 =>
                   /\ QueryPayload(units[u]).property = run.uniqueKeyProperty
                   /\ run.uniqueKeyProperty \in
                          DOMAIN CreatePayload(units[u]).properties
        /\ \A p \in 1..Len(pages) : pages[p].prop = run.uniqueKeyProperty

----------------------------------------------------------------------------
(* Properties of the singletons (SpecSingleton) *)

----------------------------------------------------------------------------
(* Properties of concurrent wrapper calls (SpecReentrant) *)

\* what one withRetry execution shows when its attempts and delays follow
\* from the failures of its own operation alone
OwnRetryState(x) ==
    LET k == Len(x.delays) IN
    /\ x.delays = Backoff(k)
    /\ x.warns = k
    /\ k <= config.maxRetries
    /\ x.pc = "idle" => x.nInv = 0 /\ k = 0
    /\ x.pc = "sleep" => x.attempt = k - 1 /\ x.nInv = k /\ x.nFail = k
    /\ x.pc \in {"call", "wait"} => x.attempt = k /\ x.nInv = k + 1 /\ x.nFail = k
    /\ x.pc = "returned" => x.nInv = k + 1 /\ x.nFail = k
    /\ x.pc = "thrown" =>
           /\ x.nInv = k + 1
           /\ x.nFail = k + 1
           /\ RateLimitSignal(x.result) => k = config.maxRetries

\* C25  Retry reentrancy: whatever the other executions do, the attempts and
\* the delays of every withRetry execution are those its own failures give:
\* one delay baseDelay * 2^(j-1) per rate-limited failure j, one more attempt
\* per delay, and giving up on the rate limit only after maxRetries delays.
RetryReentrancy ==
    /\ \A u \in DOMAIN units, lvl \in Levels : OwnRetryState(units[u][lvl])
    /\ \A lvl \in Levels : OwnRetryState(delivered[lvl])

\* two executions in flight at different attempts: the first making its
\* second attempt, the second sleeping after its first failure
RetryReentrancyWitness ==
    /\ Len(units) = 2
    /\ units[1].top.attempt = 1
    /\ units[1].top.pc = "call"
    /\ units[2].top.pc = "sleep"
    /\ units[2].top.attempt = 0

----------------------------------------------------------------------------
(* Properties of concurrent upserts (SpecRace) *)

\* the create of call u resolves in this step
CreateResolves(u) ==
    /\ units[u].top.pc = "call"
    /\ units[u].top.call = "create"
    /\ units'[u] = SettledUnit
    /\ delivered'.top.result.kind = "value"

\* C26  Check-then-act race: the create issued after a lookup that found
\* nothing is not checked again: when it resolves it adds a record with the
\* call's key to the store, whatever the store has come to hold since the
\* lookup.  Two concurrent upserts of an absent key can so leave two records.
CheckThenActRace ==
    [][\A u \in DOMAIN units :
           CreateResolves(u) =>
               /\ units[u].sub.result.page = 0
               /\ Len(pages') = Len(pages) + 1
               /\ pages'[Len(pages')].key = units[u].uniqueKey
               /\ pages'[Len(pages')].db = config.databaseId]_vars

\* both upserts of one key have returned and the store, empty at first,
\* holds two records with that key in one database
CheckThenActRaceWitness ==
    /\ units = <<SettledUnit, SettledUnit>>
    /\ Cardinality(Matches(config.databaseId, config.uniqueKeyProperty,
                           UniqueKey(1))) = 2

----------------------------------------------------------------------------
(* Properties of the counts of a run (SpecClassify) *)

\* mergedAt if present, else updatedAt
RelevantDate(mr) == IF mr.merged_at # 0 THEN mr.merged_at ELSE mr.updated_at

\* C27  Created/updated classification: a record whose upsert succeeded is
\* counted as created when its relevant date (merged_at if present, else
\* updated_at) is strictly after the window start, and as updated otherwise,
\* whichever store call was issued for it.
ClassificationByDate ==
    run.pc \in {"upserting", "returned"} =>
        LET written == { k \in 1..Len(run.log) : run.log[k].ok }
        IN /\ run.result.created =
                  Cardinality({ k \in written : RelevantDate(run.mrs[k]) > run.since })
           /\ run.result.updated =
                  Cardinality({ k \in written : RelevantDate(run.mrs[k]) <= run.since })

\* a run that issued one update and no create counted the record as created,
\* and a record dated at the window start itself was counted as updated
ClassificationByDateWitness ==
    /\ run.pc = "returned"
    /\ Len(run.mrs) = 2
    /\ run.updates = 1
    /\ run.creates = 1
    /\ run.result.created = 1
    /\ run.result.updated = 1
    /\ run.mrs[1].merged_at = 0
    /\ run.mrs[1].updated_at > run.since
    /\ RelevantDate(run.mrs[2]) = run.since

----------------------------------------------------------------------------
(* Properties of the store calls of one upsert (SpecRetry) *)

\* C28  Retry bound on the upsert path: while one createOrUpdatePage call has
\* issued nothing but queries, it has issued at most maxRetries + 1 of them,
\* and when it raises the rate-limit error of the query it has issued exactly
\* maxRetries + 1.
UpsertQueryBound ==
    /\ \A u \in DOMAIN units :
           (/\ units[u].method = "createOrUpdatePage"
            /\ units[u].calls.create = 0
            /\ units[u].calls.update = 0) =>
               units[u].queries <= config.maxRetries + 1
    /\ (/\ delivered.method = "createOrUpdatePage"
        /\ delivered.calls.create = 0
        /\ delivered.calls.update = 0
        /\ delivered.top.result.kind = "error"
        /\ RateLimitSignal(delivered.top.result)
        /\ delivered.top.allRL /\ delivered.sub.allRL) =>
           delivered.queries = config.maxRetries + 1

----------------------------------------------------------------------------
(* Properties of the databases of one upsert (SpecUpsert) *)

\* C29  Lookup and create hit the same database: a createOrUpdatePage call
\* that issues a create sends it to the database its lookup queried, and the
\* page it returns is stored in that database, whatever parent was given.
LookupAndCreateSameDatabase ==
    /\ \A u \in DOMAIN units :
           (units[u].method = "createOrUpdatePage" /\ units[u].calls.create > 0) =>
               CreatePayload(units[u]).parent = QueryPayload(units[u]).database_id
    /\ (/\ delivered.method = "createOrUpdatePage"
        /\ delivered.calls.create > 0
        /\ delivered.top.result.kind = "value") =>
           pages[delivered.top.result.page].db = QueryPayload(delivered).database_id

----------------------------------------------------------------------------
(* Properties of the records of several projects (SpecProjects) *)

\* C30  Distinct source records stay distinct: after a run with no failure
\* over records with pairwise distinct ids, no two of them were written to
\* the same page, and the store, empty before, holds one page per record.
DistinctRecordsStayDistinct ==
    (/\ run.pc = "returned"
     /\ \A k \in 1..Len(run.log) : run.log[k].ok /\ ~run.log[k].failures) =>
        /\ \A j, k \in 1..Len(run.mrs) :
               run.mrs[j].id # run.mrs[k].id => run.log[j].page # run.log[k].page
        /\ Len(pages) = Len(run.mrs)

----------------------------------------------------------------------------
(* Properties of the order of a run's calls (SpecRun) *)

\* C31  Run ordering: no store call is issued before the fetch has returned;
\* the records are upserted one at a time in fetch order: while the run
\* upserts record idx, the one createOrUpdatePage call in flight is that
\* record's, and the records before it have all succeeded or failed.
RunOrdering ==
    /\ run.pc \in {"idle", "fetching"} => units = <<>> /\ pages = NoPages
    /\ run.pc = "upserting" =>
           /\ Len(units) = 1
           /\ Len(run.log) = run.idx - 1
           /\ IF units = <<SettledUnit>>
              THEN /\ delivered.uniqueKey = UniqueKey(run.mrs[run.idx].iid)
                   /\ delivered.top.pc \in {"returned", "thrown"}
              ELSE /\ units[1].method = "createOrUpdatePage"
                   /\ units[1].uniqueKey = UniqueKey(run.mrs[run.idx].iid)
    /\ \A k \in 1..Len(run.log) :
           run.log[k].key = UniqueKey(run.mrs[k].iid)

\* the upsert of the second record is in flight after the first one failed
RunOrderingWitness ==
    /\ run.pc = "upserting"
    /\ run.idx = 2
    /\ units[1].top.q = "running"
    /\ ~run.log[1].ok

----------------------------------------------------------------------------
(* Properties of the iterator's requests (SpecHost) *)

\* C32  Page requests of the iterator: for a remote of n records and a page
\* size p it asks for the pages 1, 2, 3, ... in order, none twice; it asks
\* again only after full pages; and when it is done it has issued exactly
\* floor(n / p) + 1 list calls.
PageRequests ==
    host.method = "listMergedMrsIterator" =>
        /\ host.requests = [k \in 1..Len(host.requests) |-> k]
        /\ host.apiCalls = Len(host.requests)
        /\ Len(host.requests) <= (host.remote \div host.perPage) + 1
        /\ host.pc = "calling" =>
               /\ Len(host.out) = Len(host.requests) - 1
               /\ \A k \in 1..Len(host.out) : Len(host.out[k]) = host.perPage
        /\ host.pc = "done" =>
               Len(host.requests) = (host.remote \div host.perPage) + 1

\* three records in pages of two: the iterator is done after the short
\* second page, having asked for page 1 and page 2
PageRequestsWitness ==
    /\ host.method = "listMergedMrsIterator"
    /\ host.pc = "done"
    /\ host.remote = 3 /\ host.perPage = 2
    /\ host.requests = <<1, 2>>
    /\ Len(host.out[2]) = 1

----------------------------------------------------------------------------
(* Properties of the resolved configuration (SpecPrecedence) *)

\* the environment value a SyncConfig field falls back to, and its default
Fallback(field) ==
    CASE field = "authorUsername" -> env.GITLAB_AUTHOR_USERNAME
      [] field = "projectId" -> env.GITLAB_PROJECT_ID
      [] field = "databaseId" -> env.NOTION_DB_ID
      [] field = "uniqueKeyProperty" ->
             IF env.NOTION_UNIQUE_KEY_PROP # "" THEN env.NOTION_UNIQUE_KEY_PROP
             ELSE "MR IID"
      [] field = "daysBack" -> 7
      [] OTHER -> 3

\* C33  Configuration precedence: every SyncConfig field is the value given
\* in the config argument when one is given, else the environment value,
\* else the default (daysBack 7, maxRetries 3); the window starts daysBack
\* days before now and ends now.
ConfigurationPrecedence ==
    run.pc # "idle" =>
        /\ \A field \in {"authorUsername", "projectId", "databaseId",
                         "uniqueKeyProperty", "daysBack", "maxRetries"} :
               run[field] = IF field \in DOMAIN run.given THEN run.given[field]
                            ELSE Fallback(field)
        /\ run.since = SyncNow - run.daysBack
        /\ run.until = SyncNow

====
